---- MODULE Spec2Model ----
(***************************************************************************)
(* Bulk video export (src/main.py): CSVAudioTool.start_export hands one    *)
(* VideoExportTask per output video to a QThreadPool of three threads;     *)
(* every task selects files, normalises them through the shared disk cache *)
(* guarded by DISK_CACHE_LOCK, assembles, fits the audio, renders, and     *)
(* reports through the signals progress / error / finished, which the GUI  *)
(* thread handles in on_task_progress / on_task_error / on_task_finished.  *)
(***************************************************************************)
EXTENDS Integers, Sequences, FiniteSets, TLC

\* ------------------------------------------------------------------ sizes

\* self.threadpool.setMaxThreadCount(3)
MaxThreadCount == 3

\* output_videos_spinbox allows 1..100; the model explores 1..MaxVideos.
MaxVideos == 4

\* ------------------------------------------------------------ file system

\* os.path.dirname(os.path.abspath(__file__))
BaseDir == "/app"

\* A path is a directory and a name; a relative path has no directory.
Rel(name) == [dir |-> "", name |-> name]

Abs(dir, name) == [dir |-> dir, name |-> name]

NoPath == Rel("")

\* os.path.isabs(p)
IsAbs(p) == p.dir # ""

\* if not os.path.isabs(p): p = os.path.join(base_dir, p)
Resolve(p) == IF IsAbs(p) THEN p ELSE Abs(BaseDir, p.name)

\* The regular files on disk (os.path.isfile) while the export runs.
DiskFiles ==
    { Abs(BaseDir, "good.png"), Abs(BaseDir, "bad.png"), Abs(BaseDir, "clip.mp4"),
      Abs("/pics", "end.png"), Abs("/music", "song.mp3"), Abs("/music", "bad.mp3"),
      Abs("/music", "jingle.mp3") }

\* os.path.isfile(p)
IsFile(p) == p \in DiskFiles

\* Files the media backend cannot decode: loading one raises.
Undecodable == { Abs(BaseDir, "bad.png"), Abs("/music", "bad.mp3") }

Decodable(p) == p \notin Undecodable

\* lower_path.endswith((".mp4", ".mov", ".avi"))
IsVideo(p) == p.name \in {"clip.mp4"}

\* Time is counted in whole units (seconds in the values the program sets).
\* VideoFileClip(p).duration and AudioFileClip(p).duration of the files.
Duration(p) ==
    IF p.name = "clip.mp4" THEN 4
    ELSE IF p.name = "song.mp3" THEN 10
    ELSE 1

\* closing_clip = ImageClip(processed_close).set_duration(3)
ClosingDuration == 3

\* What the user has set when Start Export is pressed: images per video,
\* the category's file list from the CSV (never empty: start_export returns
\* early on an empty list), the closing image and the audio file (NoPath:
\* none selected), and the value of the time slider.
Setup(images_per_video, files_list, closing_image, audio_file, per_image_time) ==
    [ images_per_video |-> images_per_video, files_list |-> files_list,
      closing_image |-> closing_image, audio_file |-> audio_file,
      per_image_time |-> per_image_time ]

ExportSetups ==
    { Setup(2, << Rel("good.png"), Rel("gone.png") >>, NoPath, Abs("/music", "song.mp3"), 2),
      Setup(2, << Rel("good.png"), Rel("bad.png") >>, NoPath, NoPath, 2),
      Setup(1, << Rel("clip.mp4") >>, Abs("/pics", "end.png"), NoPath, 1),
      Setup(2, << Rel("good.png") >>, NoPath, Abs("/music", "bad.mp3"), 3),
      Setup(2, << Rel("gone.png") >>, NoPath, NoPath, 2) }

\* output_ratio_map resolutions the model explores (width, height).
Resolutions == { <<1080, 1920>> }

\* cache_file = DISK_CACHE_DIR/md5(f"{file_path}_{width}_{height}").png;
\* the digest is taken to be injective on its input.
CacheFile(path, width, height) == [path |-> path, w |-> width, h |-> height]

CacheFiles ==
    { CacheFile(p, r[1], r[2]) :
        p \in { q \in DiskFiles : ~IsVideo(q) }, r \in Resolutions }

\* output_path = os.path.join(output_folder, f"video_{self.video_idx}.mp4")
OutputPath(output_folder, video_idx) == [folder |-> output_folder, video |-> video_idx]

\* f"Error in video {self.video_idx}: {e}"
ErrorMessage(video_idx, e) == [video |-> video_idx, e |-> e]

\* The argument of a signal as one shape: progress carries an index and no
\* text, finished carries nothing.
Index(video_idx) == [video |-> video_idx, e |-> ""]

Nothing == [video |-> 0, e |-> ""]

\* --------------------------------------------------------------- selection

RECURSIVE SeqsOver(_, _)
\* All sequences of length k over the set S.
SeqsOver(S, k) ==
    IF k = 0 THEN { <<>> }
    ELSE { Append(s, x) : s \in SeqsOver(S, k - 1), x \in S }

Distinct(s) == \A a, b \in DOMAIN s : a # b => s[a] # s[b]

\* A selection that always draws with replacement.
DrawsWithReplacement(files_list, k) == SeqsOver(DOMAIN files_list, k)

\* random.choices(list, k=k) when the list is shorter than k (positions may
\* repeat), random.sample(list, k) otherwise (no position twice).
Draws(files_list, k) ==
    IF Len(files_list) < k
    THEN SeqsOver(DOMAIN files_list, k)
    ELSE { d \in SeqsOver(DOMAIN files_list, k) : Distinct(d) }

SampleFiles(files_list, k) ==
    { [i \in 1..k |-> files_list[d[i]]] : d \in Draws(files_list, k) }

\* ---------------------------------------------------------------- assembly

RECURSIVE Sum(_)
\* The durations of a list of clips added up.
Sum(durations) ==
    IF durations = <<>> THEN 0 ELSE Head(durations) + Sum(Tail(durations))

\* A concatenation that counts the padding once for every clip.
ConcatenatePaddingPerClip(durations, padding) ==
    Sum(durations) + Len(durations) * padding

\* concatenate_videoclips(clips, method="compose", padding=padding).duration:
\* the clips one after another with `padding` between two consecutive clips
\* (a negative padding makes a clip begin while the one before still plays).
Concatenate(durations, padding) ==
    Sum(durations) + (Len(durations) - 1) * padding

\* crossfade_consecutive_clips(clips, fade_duration).duration: one clip is
\* returned as it is; otherwise every clip but the first gets crossfadein,
\* which keeps its duration, and the clips are concatenated with padding
\* -fade_duration.
CrossfadeConsecutiveClips(durations, fade_duration) ==
    IF Len(durations) = 1 THEN durations[1]
    ELSE Concatenate(durations, 0 - fade_duration)

\* main_clip.duration of the crossfade branch of run().
MainClip(clips, fade_duration) == CrossfadeConsecutiveClips(clips, fade_duration)

\* An assembly that lets the closing clip overlap the main clip by the fade.
FinalClipOverlapped(clips, closing_clip, use_crossfade, fade_duration) ==
    IF closing_clip
    THEN MainClip(clips, fade_duration) + ClosingDuration - fade_duration
    ELSE MainClip(clips, fade_duration)

\* final_clip.duration: with crossfade the closing clip is concatenated
\* after main_clip, without it the closing clip is appended to the clips and
\* all are concatenated; closing_clip tells whether there is one.
FinalClip(clips, closing_clip, use_crossfade, fade_duration) ==
    IF use_crossfade
    THEN IF closing_clip
         THEN Concatenate(<< MainClip(clips, fade_duration), ClosingDuration >>, 0)
         ELSE MainClip(clips, fade_duration)
    ELSE IF closing_clip
         THEN Concatenate(Append(clips, ClosingDuration), 0)
         ELSE Concatenate(clips, 0)

\* audio_clip.subclip(t_start, t_end).duration
Subclip(t_start, t_end) == t_end - t_start

\* ------------------------------------------------------------------- state

VARIABLES
    tasks,            \* the VideoExportTask objects, in creation order
    job,              \* per task: where its run() is and its local variables
    emitted,          \* per task: how often each signal was emitted
    posted,           \* per task: emitted signals the GUI thread has not handled
    queue,            \* QThreadPool: tasks waiting for a thread
    active,           \* QThreadPool: tasks a thread is running
    lock_held,        \* tasks inside a `with DISK_CACHE_LOCK:` block
    cache,            \* DISK_CACHE_DIR: state of every cache file
    writing,          \* per cache file: tasks inside save_frame on it
    produced,         \* per cache file: how often production was entered
    saved,            \* per cache file: how often save_frame completed
    rendered,         \* <<task, output path>> of every write_videofile call
    tasks_finished,   \* CSVAudioTool.tasks_finished
    total_tasks,      \* CSVAudioTool.total_tasks
    progress_dialog,  \* "none", "open", "closed" or "cancelled"
    completed_boxes   \* "Export Completed" message boxes shown

vars ==
    << tasks, job, emitted, posted, queue, active, lock_held, cache, writing,
       produced, saved, rendered, tasks_finished, total_tasks, progress_dialog,
       completed_boxes >>

poolVars == << queue, active >>

cacheVars == << lock_held, cache, writing, produced, saved >>

guiVars == << tasks_finished, total_tasks, progress_dialog, completed_boxes >>

Jobs == DOMAIN tasks

\* A task before its run(): queued, nothing selected, nothing emitted.
NewJob ==
    [ pc |-> "queued", sample_files |-> <<>>, clips |-> <<>>, closing_clip |-> FALSE,
      closing |-> FALSE, main_clip |-> 0, final_clip |-> 0, audio_clip |-> 0 ]

NoSignals == [ progress |-> 0, error |-> 0, finished |-> 0 ]

Init ==
    /\ tasks = <<>>
    /\ job = <<>>
    /\ emitted = <<>>
    /\ posted = <<>>
    /\ queue = <<>>
    /\ active = {}
    /\ lock_held = {}
    /\ cache = [c \in CacheFiles |-> "absent"]
    /\ writing = [c \in CacheFiles |-> {}]
    /\ produced = [c \in CacheFiles |-> 0]
    /\ saved = [c \in CacheFiles |-> 0]
    /\ rendered = {}
    /\ tasks_finished = 0
    /\ total_tasks = 0
    /\ progress_dialog = "none"
    /\ completed_boxes = 0


\* ------------------------------------------------------------ start_export

\* The export_params dictionary start_export builds.
ExportParams(output_videos, setup, res) ==
    [ images_per_video |-> setup.images_per_video,
      output_videos |-> output_videos,
      width |-> res[1],
      height |-> res[2],
      audio_file |-> setup.audio_file,
      per_image_time |-> setup.per_image_time,
      fade_duration |-> 1,
      output_folder |-> "/out",
      crossfade |-> TRUE,
      closing_image |-> setup.closing_image ]

\* VideoExportTask(base_dir, files_list, export_params, video_idx); export
\* numbers the start_export call whose export_params dictionary the task holds.
VideoExportTask(files_list, export_params, video_idx, export) ==
    [ files_list |-> files_list, export_params |-> export_params,
      video_idx |-> video_idx, export |-> export ]

\* How many times start_export has created tasks.
Exports == IF tasks = <<>> THEN 0 ELSE tasks[Len(tasks)].export

\* A pool without a thread limit: every task is run as soon as it arrives.
ThreadAlwaysFree(running) == TRUE

\* QThreadPool runs a task only while fewer than maxThreadCount are running.
ThreadFree(running) == Cardinality(running) < MaxThreadCount

RECURSIVE PoolStart(_, _, _)
\* self.threadpool.start(task) for each new task in turn: a free thread takes
\* the task at once, otherwise the task is queued. Gives << running, waiting >>.
PoolStart(ids, running, waiting) ==
    IF ids = <<>> THEN << running, waiting >>
    ELSE IF ThreadFree(running)
         THEN PoolStart(Tail(ids), running \cup {Head(ids)}, waiting)
         ELSE PoolStart(Tail(ids), running, Append(waiting, Head(ids)))

\* A loop over range(output_videos): indices from 0.
VideoIdxFromZero(i) == i - 1

\* The video_idx the loop of start_export gives its i-th task.
VideoIdx(i) == i

\* start_export: counters reset, progress dialog shown, one task per video
\* created and handed to the pool. The window-modal dialog keeps the button
\* unreachable while it is open.
StartExport(output_videos, setup, res) ==
    /\ progress_dialog # "open"
    /\ setup.files_list # <<>>
    /\ LET export_params == ExportParams(output_videos, setup, res)
           first == Len(tasks)
           ids == [i \in 1..output_videos |-> first + i]
           pool == PoolStart(ids, active, queue)
       IN  /\ tasks' = tasks \o [i \in 1..output_videos |->
                 VideoExportTask(setup.files_list, export_params, VideoIdx(i), Exports + 1)]
           /\ active' = pool[1]
           /\ queue' = pool[2]
           /\ job' = job \o [i \in 1..output_videos |->
                 IF ids[i] \in pool[1] THEN [NewJob EXCEPT !.pc = "start"] ELSE NewJob]
    /\ emitted' = emitted \o [i \in 1..output_videos |-> NoSignals]
    /\ posted' = posted \o [i \in 1..output_videos |-> <<>>]
    /\ total_tasks' = output_videos
    /\ tasks_finished' = 0
    /\ progress_dialog' = "open"
    /\ UNCHANGED << cacheVars, rendered, completed_boxes >>

\* A cancel_export that closes the dialog and leaves the pool's queue alone.
CancelKeepsQueue ==
    /\ progress_dialog = "open"
    /\ progress_dialog' = "cancelled"
    /\ UNCHANGED << tasks, job, emitted, posted, queue, active, cacheVars, rendered,
                    tasks_finished, total_tasks, completed_boxes >>

\* cancel_export: self.threadpool.clear() drops every task still queued.
CancelExport ==
    /\ progress_dialog = "open"
    /\ queue' = <<>>
    /\ progress_dialog' = "cancelled"
    /\ UNCHANGED << tasks, job, emitted, posted, active, cacheVars, rendered,
                    tasks_finished, total_tasks, completed_boxes >>

\* --------------------------------------------------- VideoExportTask.run

Params(j) == tasks[j].export_params

\* A cache block without the lock: any task enters at any time.
CanAcquireUnlocked(j) == TRUE

\* `with DISK_CACHE_LOCK:` is entered only while no other task is inside.
CanAcquire(j) == lock_held = {}

\* A block that is left without the lock being released.
ReleaseForgotten(j) == lock_held' = lock_held

\* Leaving the `with` block, by its end or by an exception.
Release(j) == lock_held' = lock_held \ {j}

\* A signal with its argument, queued for the GUI thread.
Signal(name, payload) == [signal |-> name, payload |-> payload]

\* The end of run(): the outcome signal `name` is emitted, then
\* self.signals.finished.emit(); run() returns, its locals are gone and the
\* pool thread is free.
Leave(j, name, payload) ==
    /\ emitted' = [emitted EXCEPT ![j] =
                     [@ EXCEPT ![name] = @ + 1, !.finished = @ + 1]]
    /\ posted' = [posted EXCEPT ![j] =
                    @ \o << Signal(name, payload), Signal("finished", Nothing) >>]
    /\ job' = [job EXCEPT ![j] = [NewJob EXCEPT !.pc = "done"]]
    /\ active' = active \ {j}

\* An except clause that emits error and returns without emitting finished.
RaisedWithoutFinished(j, e) ==
    /\ emitted' = [emitted EXCEPT ![j].error = @ + 1]
    /\ posted' = [posted EXCEPT ![j] =
                    Append(@, Signal("error", ErrorMessage(tasks[j].video_idx, e)))]
    /\ job' = [job EXCEPT ![j] = [NewJob EXCEPT !.pc = "done"]]
    /\ active' = active \ {j}

\* except Exception as e: self.signals.error.emit(f"Error in video {idx}: {e}")
Raised(j, e) == Leave(j, "error", ErrorMessage(tasks[j].video_idx, e))

\* self.signals.progress.emit(self.video_idx) as the last statement of try.
Succeeded(j) == Leave(j, "progress", Index(tasks[j].video_idx))

\* run() begins: the parameters are read and the files selected.
Select(j) ==
    \E s \in SampleFiles(tasks[j].files_list, Params(j).images_per_video) :
        job' = [job EXCEPT ![j] = [@ EXCEPT !.pc = "norm", !.sample_files = s]]

\* The thread that took the task in threadpool.start runs it.
RunStarted(j) ==
    /\ job[j].pc = "start"
    /\ Select(j)
    /\ UNCHANGED << tasks, emitted, posted, poolVars, cacheVars, rendered, guiVars >>

\* A free pool thread takes the task at the head of the queue and runs it.
RunQueued(j) ==
    /\ queue # <<>>
    /\ j = Head(queue)
    /\ ThreadFree(active)
    /\ job[j].pc = "queued"
    /\ Select(j)
    /\ queue' = Tail(queue)
    /\ active' = active \cup {j}
    /\ UNCHANGED << tasks, emitted, posted, cacheVars, rendered, guiVars >>

\* The file the loop is at, made absolute.
FilePath(j) == Resolve(Head(job[j].sample_files))

\* if not os.path.isfile(file_path): print(...); continue
SkipMissing(j) ==
    /\ job[j].pc = "norm"
    /\ job[j].sample_files # <<>>
    /\ ~IsFile(FilePath(j))
    /\ job' = [job EXCEPT ![j].sample_files = Tail(@)]
    /\ UNCHANGED << tasks, emitted, posted, poolVars, cacheVars, rendered, guiVars >>

\* clip = VideoFileClip(file_path).resize(...); clips.append(clip)
LoadVideo(j) ==
    /\ job[j].pc = "norm"
    /\ job[j].sample_files # <<>>
    /\ IsFile(FilePath(j))
    /\ IsVideo(FilePath(j))
    /\ IF Decodable(FilePath(j))
       THEN /\ job' = [job EXCEPT ![j] = [@ EXCEPT !.sample_files = Tail(@),
                                                    !.clips = Append(@, Duration(FilePath(j)))]]
            /\ UNCHANGED << emitted, posted, active >>
       ELSE Raised(j, "unreadable asset")
    /\ UNCHANGED << tasks, queue, cacheVars, rendered, guiVars >>

\* The source whose frame the task is caching.
Source(j) ==
    IF job[j].closing THEN Resolve(Params(j).closing_image) ELSE FilePath(j)

\* The cache file of that source at the batch's resolution.
CacheFileOf(j) == CacheFile(Source(j), Params(j).width, Params(j).height)

\* os.path.exists(cache_file)
Exists(c) == cache[c] # "absent"

\* with DISK_CACHE_LOCK: if os.path.exists(cache_file): processed = cache_file
\* (the block is left at once) else: production follows inside the block.
LockedLookup(j, c, closing) ==
    /\ CanAcquire(j)
    /\ IF Exists(c)
       THEN /\ job' = [job EXCEPT ![j] = [@ EXCEPT !.pc = "read", !.closing = closing]]
            /\ UNCHANGED lock_held
       ELSE /\ job' = [job EXCEPT ![j] = [@ EXCEPT !.pc = "produce", !.closing = closing]]
            /\ lock_held' = lock_held \cup {j}
    /\ UNCHANGED << tasks, emitted, posted, poolVars, cache, writing, produced, saved,
                    rendered, guiVars >>

\* An existing image of the sample reaches its `with DISK_CACHE_LOCK:`.
CacheImage(j) ==
    /\ job[j].pc = "norm"
    /\ job[j].sample_files # <<>>
    /\ IsFile(FilePath(j))
    /\ ~IsVideo(FilePath(j))
    /\ LockedLookup(j, CacheFile(FilePath(j), Params(j).width, Params(j).height), FALSE)

\* if closing_image and closing_image.strip() != "" ... os.path.isfile(...)
HasClosing(j) ==
    /\ Params(j).closing_image # NoPath
    /\ IsFile(Resolve(Params(j).closing_image))

\* After the loop, an existing closing image reaches its lock block.
CacheClosing(j) ==
    /\ job[j].pc = "norm"
    /\ job[j].sample_files = <<>>
    /\ HasClosing(j)
    /\ LockedLookup(j, CacheFile(Resolve(Params(j).closing_image),
                                 Params(j).width, Params(j).height), TRUE)

\* Cache miss, inside the lock: ImageClip(path) raises on an undecodable
\* source; otherwise resize / crop / on_color run and save_frame is called,
\* which creates the cache file and starts writing, or fails before it has
\* created the file.
Produce(j) ==
    /\ job[j].pc = "produce"
    /\ IF Decodable(Source(j))
       THEN /\ produced' = [produced EXCEPT ![CacheFileOf(j)] = @ + 1]
            /\ \/ /\ cache' = [cache EXCEPT ![CacheFileOf(j)] = "partial"]
                  /\ writing' = [writing EXCEPT ![CacheFileOf(j)] = @ \cup {j}]
                  /\ job' = [job EXCEPT ![j].pc = "write"]
                  /\ UNCHANGED << emitted, posted, active, lock_held >>
               \/ /\ Raised(j, "save_frame failed")
                  /\ Release(j)
                  /\ UNCHANGED << cache, writing >>
       ELSE /\ Raised(j, "unreadable asset")
            /\ Release(j)
            /\ UNCHANGED << cache, writing, produced >>
    /\ UNCHANGED << tasks, queue, saved, rendered, guiVars >>

\* save_frame ends: the frame is complete, or the write failed part-way and
\* the file stays as it is (nothing removes it).
FinishWrite(j) ==
    /\ job[j].pc = "write"
    /\ writing' = [writing EXCEPT ![CacheFileOf(j)] = @ \ {j}]
    /\ Release(j)
    /\ \/ /\ cache' = [cache EXCEPT ![CacheFileOf(j)] = "complete"]
          /\ saved' = [saved EXCEPT ![CacheFileOf(j)] = @ + 1]
          /\ job' = [job EXCEPT ![j].pc = "read"]
          /\ UNCHANGED << emitted, posted, active >>
       \/ /\ Raised(j, "save_frame failed")
          /\ UNCHANGED << cache, saved >>
    /\ UNCHANGED << tasks, queue, produced, rendered, guiVars >>

\* Outside the lock: ImageClip(processed_file).set_duration(...); a file that
\* is not a complete frame does not decode.
ReadCache(j) ==
    /\ job[j].pc = "read"
    /\ IF cache[CacheFileOf(j)] = "complete"
       THEN /\ job' = [job EXCEPT ![j] =
                         IF @.closing
                         THEN [@ EXCEPT !.pc = "compose", !.closing_clip = TRUE]
                         ELSE [@ EXCEPT !.pc = "norm",
                                        !.clips = Append(@, Params(j).per_image_time),
                                        !.sample_files = Tail(@)]]
            /\ UNCHANGED << emitted, posted, active >>
       ELSE Raised(j, "unreadable cache frame")
    /\ UNCHANGED << tasks, queue, cacheVars, rendered, guiVars >>

\* if not clips: raise ValueError("No valid files to process ...")
NoValidFiles(j) == job[j].clips = <<>>

\* if audio_file and os.path.isfile(audio_file): AudioFileClip(audio_file)
LoadsAudio(j) ==
    /\ Params(j).audio_file # NoPath
    /\ IsFile(Params(j).audio_file)

\* An assembly after which run() goes on to write_videofile without the
\* audio step.
AssembleSkippingAudio(j) ==
    /\ \/ job[j].pc = "norm" /\ job[j].sample_files = <<>> /\ ~HasClosing(j)
       \/ job[j].pc = "compose"
    /\ IF NoValidFiles(j)
       THEN Raised(j, "No valid files to process for video creation.")
       ELSE /\ job' = [job EXCEPT ![j].pc = "render"]
            /\ UNCHANGED << emitted, posted, active >>
    /\ UNCHANGED << tasks, queue, cacheVars, rendered, guiVars >>

\* The loop and the closing image are done: without a closing image
\* closing_clip stays None; no clips raises; otherwise the final clip is built.
Assemble(j) ==
    /\ \/ job[j].pc = "norm" /\ job[j].sample_files = <<>> /\ ~HasClosing(j)
       \/ job[j].pc = "compose"
    /\ IF NoValidFiles(j)
       THEN Raised(j, "No valid files to process for video creation.")
       ELSE /\ job' = [job EXCEPT ![j] = [@ EXCEPT
                    !.pc = "audio",
                    !.main_clip = IF Params(j).crossfade
                                  THEN MainClip(job[j].clips, Params(j).fade_duration)
                                  ELSE 0,
                    !.final_clip = FinalClip(job[j].clips, job[j].closing_clip,
                                             Params(j).crossfade,
                                             Params(j).fade_duration)]]
            /\ UNCHANGED << emitted, posted, active >>
    /\ UNCHANGED << tasks, queue, cacheVars, rendered, guiVars >>

\* write_videofile(output_path) is entered with the audio attached so far.
EnterRender(j, audio_clip) ==
    /\ job' = [job EXCEPT ![j] = [@ EXCEPT !.pc = "render", !.audio_clip = audio_clip]]
    /\ rendered' = rendered \cup
          { << j, OutputPath(Params(j).output_folder, tasks[j].video_idx) >> }
    /\ UNCHANGED << emitted, posted, active >>

\* The audio, if a file is set and exists, is loaded and fitted to the final
\* clip: a shorter one through audio_loop(audio_clip, duration=...), any
\* other through subclip(0, final_clip.duration); then the output path is
\* formed and write_videofile entered. The name audio_loop comes from
\* `from moviepy.audio.fx import audio_loop`: where the package exports the
\* function the audio is looped to the duration asked for, where the name is
\* the submodule audio_loop the call raises TypeError.
FitAudio(j) ==
    /\ job[j].pc = "audio"
    /\ IF ~LoadsAudio(j)
       THEN EnterRender(j, 0)
       ELSE IF ~Decodable(Params(j).audio_file)
       THEN /\ Raised(j, "unreadable audio")
            /\ UNCHANGED rendered
       ELSE IF Duration(Params(j).audio_file) < job[j].final_clip
       THEN \/ EnterRender(j, job[j].final_clip)
            \/ /\ Raised(j, "'module' object is not callable")
               /\ UNCHANGED rendered
       ELSE EnterRender(j, Subclip(0, job[j].final_clip))
    /\ UNCHANGED << tasks, queue, cacheVars, guiVars >>

\* A run() that emits progress before write_videofile has returned: when the
\* encoder then raises, the task has emitted progress and error.
RenderEmitsEarly(j) ==
    /\ job[j].pc = "render"
    /\ \/ Succeeded(j)
       \/ /\ emitted' = [emitted EXCEPT ![j] =
                  [@ EXCEPT !.progress = @ + 1, !.error = @ + 1, !.finished = @ + 1]]
          /\ posted' = [posted EXCEPT ![j] =
                  @ \o << Signal("error", ErrorMessage(tasks[j].video_idx, "encode failed")),
                          Signal("finished", Nothing) >>]
          /\ job' = [job EXCEPT ![j] = [NewJob EXCEPT !.pc = "done"]]
          /\ active' = active \ {j}
    /\ UNCHANGED << tasks, queue, cacheVars, rendered, guiVars >>

\* write_videofile returns and progress is emitted, or it raises.
Render(j) ==
    /\ job[j].pc = "render"
    /\ \/ Succeeded(j)
       \/ Raised(j, "encode failed")
    /\ UNCHANGED << tasks, queue, cacheVars, rendered, guiVars >>

\* ------------------------------------------------------ GUI thread slots

\* The signals of one task reach the GUI thread in the order of their
\* emission: the outcome signal (progress or error), then finished. The slot
\* of the outcome signal changes nothing the model holds, so the two slots
\* are taken as one step of the GUI thread.
Outcome(j) == Head(posted[j])

\* on_task_progress(video_idx): print(f"Video {video_idx} completed.")
OnTaskProgress(j) ==
    /\ posted[j] # <<>>
    /\ Outcome(j).signal = "progress"

\* on_task_error(message): self.show_error(message), a modal box.
OnTaskError(j) ==
    /\ posted[j] # <<>>
    /\ Outcome(j).signal = "error"

\* on_task_finished: count, and announce the end at tasks_finished >= total.
OnTaskFinished ==
    /\ tasks_finished' = tasks_finished + 1
    /\ IF tasks_finished + 1 >= total_tasks
       THEN /\ progress_dialog' = "closed"
            /\ completed_boxes' = completed_boxes + 1
       ELSE UNCHANGED << progress_dialog, completed_boxes >>
    /\ UNCHANGED total_tasks

\* The GUI thread handles the signals of a task that succeeded.
HandleSucceeded(j) ==
    /\ OnTaskProgress(j)
    /\ OnTaskFinished
    /\ posted' = [posted EXCEPT ![j] = <<>>]
    /\ UNCHANGED << tasks, job, emitted, poolVars, cacheVars, rendered >>

\* A task whose finished signal is emitted only at the end of the try block:
\* after a failure the GUI thread shows the error and counts nothing.
HandleFailedUncounted(j) ==
    /\ OnTaskError(j)
    /\ posted' = [posted EXCEPT ![j] = <<>>]
    /\ UNCHANGED << tasks, job, emitted, poolVars, cacheVars, rendered, guiVars >>

\* The GUI thread handles the signals of a task that failed.
HandleFailed(j) ==
    /\ OnTaskError(j)
    /\ OnTaskFinished
    /\ posted' = [posted EXCEPT ![j] = <<>>]
    /\ UNCHANGED << tasks, job, emitted, poolVars, cacheVars, rendered >>

\* ------------------------------------------------------------ behaviours

\* One export: the user presses Start Export once.
ExportOnce ==
    \E n \in 1..MaxVideos, setup \in ExportSetups, res \in Resolutions :
        /\ tasks = <<>>
        /\ StartExport(n, setup, res)

\* Task numbers one export can create.
TaskIds == 1..MaxVideos

Next ==
    \/ ExportOnce
    \/ CancelExport
    \/ \E j \in TaskIds : j \in Jobs /\ RunStarted(j)
    \/ \E j \in TaskIds : j \in Jobs /\ RunQueued(j)
    \/ \E j \in TaskIds : j \in Jobs /\ SkipMissing(j)
    \/ \E j \in TaskIds : j \in Jobs /\ LoadVideo(j)
    \/ \E j \in TaskIds : j \in Jobs /\ CacheImage(j)
    \/ \E j \in TaskIds : j \in Jobs /\ CacheClosing(j)
    \/ \E j \in TaskIds : j \in Jobs /\ Produce(j)
    \/ \E j \in TaskIds : j \in Jobs /\ FinishWrite(j)
    \/ \E j \in TaskIds : j \in Jobs /\ ReadCache(j)
    \/ \E j \in TaskIds : j \in Jobs /\ Assemble(j)
    \/ \E j \in TaskIds : j \in Jobs /\ FitAudio(j)
    \/ \E j \in TaskIds : j \in Jobs /\ Render(j)
    \/ \E j \in TaskIds : j \in Jobs /\ HandleSucceeded(j)
    \/ \E j \in TaskIds : j \in Jobs /\ HandleFailed(j)

Spec == Init /\ [][Next]_vars

\* What a pool thread does with task j.
Work(j) ==
    \/ RunStarted(j) \/ RunQueued(j) \/ SkipMissing(j) \/ LoadVideo(j)
    \/ CacheImage(j) \/ CacheClosing(j) \/ Produce(j) \/ FinishWrite(j)
    \/ ReadCache(j) \/ Assemble(j) \/ FitAudio(j) \/ Render(j)

\* What the GUI thread's event loop does with the signals of task j.
Handle(j) == HandleSucceeded(j) \/ HandleFailed(j)

\* A step of some pool thread or of the GUI thread's event loop.
Progress == \E j \in TaskIds : j \in Jobs /\ (Work(j) \/ Handle(j))

\* Pool threads keep running and the event loop keeps delivering queued
\* signals as long as any of them has something to do; the user is not
\* obliged to start or to cancel anything.
FairSpec == Spec /\ WF_vars(Progress)

\* ------------------------------------------------------------- vocabulary

Range(s) == { s[i] : i \in DOMAIN s }

\* Task j was queued and cancel_export removed it before any thread took it.
Cleared(j) == job[j].pc = "queued" /\ j \notin Range(queue)

\* run() of task j has returned.
Completed(j) == job[j].pc = "done"

\* Outcome signals (progress or error) task j has emitted.
Outcomes(j) == emitted[j].progress + emitted[j].error

\* An export was started and the pool has nothing queued and nothing running.
PoolIdle == tasks # <<>> /\ queue = <<>> /\ active = {}

\* The pool is idle and the GUI thread has handled every signal.
Settled == PoolIdle /\ \A j \in Jobs : posted[j] = <<>>

ClearedJobs == { j \in Jobs : Cleared(j) }

Successes == Cardinality({ j \in Jobs : emitted[j].progress > 0 })

Failures == Cardinality({ j \in Jobs : emitted[j].error > 0 })

\* ---------------------------------------------------------------------- C1

\* C1 as stated: every task handed to the pool has emitted finished exactly
\* once by the time the pool has nothing left to run.
C1_FinishedForEveryHandedTask ==
    PoolIdle => \A j \in Jobs : emitted[j].finished = 1

\* C1, amended: a task emits finished exactly once, at the end of its run(),
\* whether the run succeeded or raised, unless cancel_export removed it from
\* the queue; a removed task never emits finished. Every task reaches one of
\* the two.
C1_FinishedOncePerRunTask ==
    /\ [](\A j \in Jobs :
            /\ emitted[j].finished = IF Completed(j) THEN 1 ELSE 0
            /\ Cleared(j) => emitted[j].finished = 0)
    /\ [](tasks # <<>> =>
            <>[](\A j \in Jobs : Cleared(j) \/ emitted[j].finished = 1))

\* A task that raised has emitted finished once while another task of the
\* export was removed from the queue and a third succeeded.
C1_Witness ==
    /\ PoolIdle
    /\ \E j, k, l \in Jobs :
          /\ emitted[j].error = 1 /\ emitted[j].finished = 1
          /\ emitted[k].progress = 1 /\ emitted[k].finished = 1
          /\ Cleared(l)

\* ---------------------------------------------------------------------- C2

\* C2 as stated: every dispatched task has emitted exactly one outcome
\* signal by the time the pool has nothing left to run.
C2_OutcomeForEveryDispatchedTask ==
    PoolIdle => \A j \in Jobs : Outcomes(j) = 1

\* C2, amended: a task never emits both progress and error and never more
\* than one of either; at the end of its run() it has emitted exactly one of
\* them, progress carrying its index on success and error carrying its
\* index on failure; a task cancel_export removed from the queue emits
\* neither. Every task reaches one of the two.
C2_OneOutcomePerRunTask ==
    /\ [](\A j \in Jobs :
            /\ Outcomes(j) = IF Completed(j) THEN 1 ELSE 0
            /\ Cleared(j) => Outcomes(j) = 0
            /\ posted[j] # <<>> =>
                  \/ /\ Outcome(j).signal = "progress"
                     /\ Outcome(j).payload = Index(tasks[j].video_idx)
                     /\ emitted[j].progress = 1
                  \/ /\ Outcome(j).signal = "error"
                     /\ Outcome(j).payload.video = tasks[j].video_idx
                     /\ emitted[j].error = 1)
    /\ [](tasks # <<>> =>
            <>[](\A j \in Jobs : Cleared(j) \/ Outcomes(j) = 1))

\* One task succeeded, one failed in the encoder after the other stages, and
\* one was removed from the queue.
C2_Witness ==
    /\ PoolIdle
    /\ \E j, k, l \in Jobs :
          /\ emitted[j].progress = 1 /\ emitted[j].error = 0
          /\ emitted[k].error = 1 /\ emitted[k].progress = 0
          /\ posted[k] # <<>> /\ Outcome(k).payload.e = "encode failed"
          /\ Cleared(l)

\* ---------------------------------------------------------------------- C3

C4_CancelSparesRunningTasks ==
    /\ [](\A j \in Jobs :
            /\ progress_dialog = "cancelled" => j \notin Range(queue)
            /\ Cleared(j) => j \notin active /\ emitted[j] = NoSignals /\ posted[j] = <<>>)
    /\ [][\A j \in Jobs : Cleared(j) => Cleared(j)' /\ job'[j] = job[j]]_vars
    /\ [](tasks # <<>> =>
            <>[](\A j \in Jobs :
                   \/ Cleared(j)
                   \/ /\ Completed(j)
                      /\ Outcomes(j) = 1
                      /\ emitted[j].finished = 1
                      /\ posted[j] = <<>>))

\* The export was cancelled with a task still queued and three running; the
\* three have run to their end and their signals are handled.
C4_Witness ==
    /\ progress_dialog = "cancelled"
    /\ Settled
    /\ ClearedJobs # {}
    /\ Cardinality({ j \in Jobs : Completed(j) /\ emitted[j].finished = 1 }) = MaxThreadCount
    /\ tasks_finished = MaxThreadCount

\* ---------------------------------------------------------------------- C5

\* Tasks of the pool that are at the lock block of cache file c or inside it.
Requesting(c) ==
    { j \in Jobs :
        \/ /\ job[j].pc = "norm" /\ job[j].sample_files # <<>>
           /\ IsFile(FilePath(j)) /\ ~IsVideo(FilePath(j))
           /\ CacheFile(FilePath(j), Params(j).width, Params(j).height) = c
        \/ job[j].pc \in {"produce", "write"} /\ CacheFileOf(j) = c }

\* C5 as stated: for every cache key the frame-producing step (resize, crop
\* or pad, save_frame) runs at most once, and no two tasks write the same
\* cache file at the same time.
C5_ProducedAtMostOnce ==
    \A c \in CacheFiles : produced[c] <= 1 /\ Cardinality(writing[c]) <= 1

\* C5, amended: for every cache key save_frame completes at most once and
\* the frame-producing step is entered only inside the lock and while no
\* file exists at the key's path, so it runs again only after a run that
\* failed before it had created the file; no two tasks write the same cache
\* file at the same time.
C5_SavedAtMostOnce ==
    /\ [](\A c \in CacheFiles :
            /\ saved[c] <= 1
            /\ Cardinality(writing[c]) <= 1
            /\ writing[c] \subseteq lock_held
            /\ Cardinality(lock_held) <= 1)
    /\ [][\A c \in CacheFiles :
            produced'[c] > produced[c] =>
                /\ ~Exists(c)
                /\ produced'[c] = produced[c] + 1
                /\ \E j \in lock_held : job[j].pc = "produce" /\ CacheFileOf(j) = c]_vars

\* One task is writing a cache file while two others of the pool are at the
\* lock block of the same file.
C5_Witness ==
    \E c \in CacheFiles :
        /\ Cardinality(writing[c]) = 1
        /\ Cardinality(Requesting(c) \ writing[c]) = 2

\* ---------------------------------------------------------------------- C6

\* C6: a cache file holds an incomplete frame only while a task is writing
\* it, and no task takes an incomplete file for a cache hit.
C6_NoPartialCacheEntry ==
    /\ \A c \in CacheFiles : cache[c] = "partial" => writing[c] # {}
    /\ \A j \in Jobs : job[j].pc = "read" => cache[CacheFileOf(j)] = "complete"

\* ---------------------------------------------------------------------- C7

\* C7: no task fails on what another task's failure left behind: no error
\* reports a cache frame that cannot be read (no task reads a frame it has
\* failed to write itself).
C7_NoFailureFromSibling ==
    \A j \in Jobs :
        (posted[j] # <<>> /\ Outcome(j).signal = "error") =>
            Outcome(j).payload.e # "unreadable cache frame"

\* ---------------------------------------------------------------------- C8

\* Tasks whose run() a thread has been given and that have not completed.
InFlight == { j \in Jobs : job[j].pc \notin {"queued", "done"} }

\* C8: at most three tasks are started and not completed at any time; the
\* others wait in the queue, and a queued task is started only while fewer
\* than three are.
C8_AtMostThreeInFlight ==
    /\ [](/\ Cardinality(InFlight) <= MaxThreadCount
          /\ InFlight = active
          /\ \A j \in Range(queue) : job[j].pc = "queued")
    /\ [][\A j \in Jobs :
            (job[j].pc = "queued" /\ job'[j].pc # "queued") =>
                Cardinality(InFlight) < MaxThreadCount]_vars

\* Three tasks are running and a fourth waits in the queue.
C8_Witness ==
    /\ Cardinality(InFlight) = MaxThreadCount
    /\ queue # <<>>

\* ---------------------------------------------------------------------- C9

\* Tasks of the same start_export call.
SameExport(i, j) == tasks[i].export = tasks[j].export

\* C9: the tasks of an export of N videos carry the indices 1..N, each once,
\* and a task calls write_videofile only on video_<its index>.mp4 in the
\* output folder, so no two tasks of the export write the same path,
\* whatever the order of completion and whichever tasks fail.
C9_IndexedOutputs ==
    /\ \A j \in Jobs : tasks[j].video_idx \in 1..Params(j).output_videos
    /\ \A i, j \in Jobs : (i # j /\ SameExport(i, j)) => tasks[i].video_idx # tasks[j].video_idx
    /\ \A n \in 1..total_tasks : \E j \in Jobs : tasks[j].video_idx = n
    /\ \A r \in rendered :
          r[2] = OutputPath(Params(r[1]).output_folder, tasks[r[1]].video_idx)
    /\ \A r, q \in rendered : (r[1] # q[1] /\ SameExport(r[1], q[1])) => r[2] # q[2]

\* Video 1 failed before rendering, video 3 was rendered and completed
\* before video 2, which is rendering its own file.
C9_Witness ==
    /\ Cardinality(Jobs) >= 3
    /\ \E i, j, k \in Jobs :
          /\ tasks[i].video_idx = 1 /\ emitted[i].error = 1
          /\ \A r \in rendered : r[1] # i
          /\ tasks[k].video_idx = 3 /\ emitted[k].progress = 1
          /\ << k, OutputPath("/out", 3) >> \in rendered
          /\ tasks[j].video_idx = 2 /\ job[j].pc = "render"
          /\ << j, OutputPath("/out", 2) >> \in rendered

\* --------------------------------------------------------------------- C10

\* C10: a selected file that cannot be read is skipped, so no task fails
\* with the error of an unreadable asset; a task without any usable asset
\* fails with the no-valid-files error instead.
C10_UnreadableAssetSkipped ==
    \A j \in Jobs :
        (posted[j] # <<>> /\ Outcome(j).signal = "error") =>
            Outcome(j).payload.e # "unreadable asset"

\* --------------------------------------------------------------------- C11

\* Longest file list and largest images_per_video the selection is run on.
MaxList == 3

\* The file lists: every list of 1..MaxList entries over two names, one of
\* an existing image and one of a missing file; a name may occur twice.
SelectionLists ==
    UNION { SeqsOver({ Rel("good.png"), Rel("gone.png") }, n) : n \in 1..MaxList }

\* The state start_export leaves when it is called in the initial state for
\* output_videos videos: every task has a thread and none has started run().
Exporting(output_videos, files_list, export_params) ==
    /\ tasks = [i \in 1..output_videos |->
                  VideoExportTask(files_list, export_params, VideoIdx(i), 1)]
    /\ job = [i \in 1..output_videos |-> [NewJob EXCEPT !.pc = "start"]]
    /\ emitted = [i \in 1..output_videos |-> NoSignals]
    /\ posted = [i \in 1..output_videos |-> <<>>]
    /\ queue = <<>>
    /\ active = 1..output_videos
    /\ lock_held = {}
    /\ cache = [c \in CacheFiles |-> "absent"]
    /\ writing = [c \in CacheFiles |-> {}]
    /\ produced = [c \in CacheFiles |-> 0]
    /\ saved = [c \in CacheFiles |-> 0]
    /\ rendered = {}
    /\ tasks_finished = 0
    /\ total_tasks = output_videos
    /\ progress_dialog = "open"
    /\ completed_boxes = 0

\* Two videos are being exported from one of the lists.
SelectInit ==
    \E files_list \in SelectionLists, k \in 1..MaxList :
        Exporting(2, files_list,
                  ExportParams(2, Setup(k, files_list, NoPath, NoPath, 1), << 1080, 1920 >>))

SelectNext ==
    \/ \E j \in 1..2 : RunStarted(j)
    \/ \E j \in 1..2 : SkipMissing(j)
    \/ \E j \in 1..2 : CacheImage(j)
    \/ \E j \in 1..2 : Produce(j)
    \/ \E j \in 1..2 : FinishWrite(j)
    \/ \E j \in 1..2 : ReadCache(j)
    \/ \E j \in 1..2 : Assemble(j)
    \/ \E j \in 1..2 : FitAudio(j)
    \/ \E j \in 1..2 : Render(j)
    \/ \E j \in 1..2 : HandleSucceeded(j)
    \/ \E j \in 1..2 : HandleFailed(j)

SelectSpec == SelectInit /\ [][SelectNext]_vars

\* The sequence s consists of entries of the list at the positions d.
DrawnAt(s, files_list, d) == \A i \in DOMAIN s : s[i] = files_list[d[i]]

\* C11: when run() selects, the selection has exactly images_per_video
\* entries, each the entry of the file list at some position; with a list of
\* at least images_per_video entries the positions are pairwise different;
\* and no step of any task changes the file list the tasks share.
C11_SelectionDrawsFromList ==
    /\ [][\A j \in Jobs :
            (job[j].pc = "start" /\ job'[j].pc = "norm") =>
                LET s == job'[j].sample_files
                    files_list == tasks[j].files_list
                    k == Params(j).images_per_video
                IN  /\ Len(s) = k
                    /\ \E d \in [1..k -> DOMAIN files_list] :
                          /\ DrawnAt(s, files_list, d)
                          /\ Len(files_list) >= k => Distinct(d)]_vars
    /\ [][\A j \in Jobs : tasks'[j].files_list = tasks[j].files_list]_vars

\* Task 1 has just selected from a list shorter than images_per_video and
\* an entry occurs twice in its selection; task 2 has completed.
C11_Witness ==
    /\ Len(tasks[1].files_list) < Params(1).images_per_video
    /\ job[1].pc = "norm"
    /\ Len(job[1].sample_files) = Params(1).images_per_video
    /\ \E a, b \in DOMAIN job[1].sample_files :
          a # b /\ job[1].sample_files[a] = job[1].sample_files[b]
    /\ job[2].pc = "done"

\* --------------------------------------------------------------------- C12

\* Most images per video, longest per-image time and longest fade the
\* assembly is run on.
MaxClips == 3

MaxPerImageTime == 3

MaxFade == 2

\* The file lists of the assembly: images and a video, so that the clips of
\* one video differ in duration, and a missing file.
TimelineLists ==
    { << Rel("good.png") >>, << Rel("good.png"), Rel("clip.mp4") >>,
      << Rel("gone.png"), Rel("clip.mp4") >> }

\* Closing images: none, an existing one, one that does not resolve.
TimelineClosings == { NoPath, Abs("/pics", "end.png"), Abs("/pics", "gone.png") }

\* Audio files: none, one longer and one shorter than any video assembled
\* here, one that does not exist.
TimelineAudios ==
    { NoPath, Abs("/music", "song.mp3"), Abs("/music", "jingle.mp3"),
      Abs("/music", "gone.mp3") }

\* One VideoExportTask constructed with export_params drawn from the sets
\* above; run() reads crossfade and fade_duration from export_params. The
\* fade is not longer than an image is shown (the precondition the
\* parameters document).
TimelineInit ==
    \E k \in 1..MaxClips, files_list \in TimelineLists,
       closing_image \in TimelineClosings, audio_file \in TimelineAudios,
       per_image_time \in 1..MaxPerImageTime, fade_duration \in 1..MaxFade,
       crossfade \in BOOLEAN :
        /\ fade_duration <= per_image_time
        /\ Exporting(1, files_list,
              [ExportParams(1, Setup(k, files_list, closing_image, audio_file,
                                     per_image_time), << 1080, 1920 >>)
                 EXCEPT !.fade_duration = fade_duration, !.crossfade = crossfade])

TimelineNext ==
    \/ RunStarted(1)
    \/ SkipMissing(1)
    \/ LoadVideo(1)
    \/ CacheImage(1)
    \/ CacheClosing(1)
    \/ Produce(1)
    \/ FinishWrite(1)
    \/ ReadCache(1)
    \/ Assemble(1)
    \/ FitAudio(1)
    \/ Render(1)
    \/ HandleSucceeded(1)
    \/ HandleFailed(1)

TimelineSpec == TimelineInit /\ [][TimelineNext]_vars

\* Task j has assembled its final clip and has not left run().
Assembled(j) == job[j].pc \in { "audio", "render" }

MainBody(j) == IF Params(j).crossfade THEN job[j].main_clip ELSE Sum(job[j].clips)

\* C13: an existing closing image adds a closing clip of exactly 3 after the
\* main body, without overlap, with crossfade and without; without a closing
\* image, or with one that does not resolve, the final clip is the main body.
C13_ClosingAppended ==
    \A j \in Jobs :
        Assembled(j) =>
            /\ job[j].closing_clip = HasClosing(j)
            /\ job[j].final_clip = MainBody(j) + (IF HasClosing(j) THEN 3 ELSE 0)

\* A crossfaded main clip of two images shown 3 each, fade 2, got the closing
\* clip appended: 4 + 3.
C13_Witness ==
    /\ Assembled(1)
    /\ Params(1).crossfade
    /\ HasClosing(1)
    /\ Params(1).per_image_time = 3
    /\ Params(1).fade_duration = 2
    /\ job[1].clips = << 3, 3 >>
    /\ job[1].final_clip = 7

\* --------------------------------------------------------------------- C14

\* Task j has an audio file that exists and can be read.
AudioResolves(j) == LoadsAudio(j) /\ Decodable(Params(j).audio_file)

\* C14 as stated: a task whose audio file exists leaves the audio step into
\* rendering with audio of exactly the final clip's duration, looped or
\* trimmed; a task without one renders without audio.
C14_AudioFitsFinalClip ==
    /\ [][\A j \in Jobs :
            (job[j].pc = "audio" /\ job'[j].pc # "audio" /\ AudioResolves(j)) =>
                /\ job'[j].pc = "render"
                /\ job'[j].audio_clip = job[j].final_clip]_vars
    /\ [][\A j \in Jobs :
            (job[j].pc = "audio" /\ job'[j].pc # "audio" /\ ~LoadsAudio(j)) =>
                /\ job'[j].pc = "render"
                /\ job'[j].audio_clip = 0]_vars

\* --------------------------------------------------------------------- C15

\* How far run() of task j has come: 0 not begun, 1 files selected and being
\* normalised (closing image included), 2 final clip assembled, 3 audio
\* fitted and write_videofile entered, 4 returned.
Stage(pc) ==
    CASE pc \in { "queued", "start" } -> 0
      [] pc \in { "norm", "produce", "write", "read", "compose" } -> 1
      [] pc = "audio" -> 2
      [] pc = "render" -> 3
      [] pc = "done" -> 4

\* C15: within one task the stages follow one another in the order
\* selecting, normalising, assembling, audio fitting, rendering: a step of
\* run() stays in its stage or enters the next one, never an earlier or a
\* later one, except that a failure ends run() at once with an error; a task
\* that has returned does nothing more; progress is emitted only by the step
\* that ends rendering.
C15_StagesInOrder ==
    [][\A j \in Jobs :
         LET from == Stage(job[j].pc)
             to == Stage(job'[j].pc)
             failed == emitted'[j].error = emitted[j].error + 1
             succeeded == emitted'[j].progress = emitted[j].progress + 1
         IN  /\ \/ to = from /\ ~failed /\ ~succeeded
                \/ to = from + 1 /\ to < 4 /\ ~failed /\ ~succeeded
                \/ from \in 1..3 /\ to = 4 /\ failed /\ ~succeeded
                \/ from = 3 /\ to = 4 /\ succeeded /\ ~failed
             /\ from = 4 => emitted'[j] = emitted[j]]_vars

\* One task went through every stage and emitted progress, another failed
\* and returned.
C15_Witness ==
    \E i, j \in Jobs :
        /\ Completed(i) /\ emitted[i].progress = 1 /\ emitted[i].error = 0
        /\ Completed(j) /\ emitted[j].error = 1 /\ emitted[j].progress = 0

\* --------------------------------------------------------------------- C16

\* C16 as stated: a task that opens a cache file outside the lock opens a
\* file that has been written completely, and no task is writing that file.
C16_ReadsOnlyWrittenEntries ==
    \A j \in Jobs :
        job[j].pc = "read" =>
            /\ writing[CacheFileOf(j)] = {}
            /\ saved[CacheFileOf(j)] >= 1

\* --------------------------------------------------------------------- C17

\* Task j is at `with DISK_CACHE_LOCK:` of an image of its selection or of
\* its closing image and has not entered the block.
AtLock(j) ==
    /\ job[j].pc = "norm"
    /\ IF job[j].sample_files # <<>>
       THEN IsFile(FilePath(j)) /\ ~IsVideo(FilePath(j))
       ELSE HasClosing(j)

\* Task j is inside the block: producing the frame or writing it.
InBlock(j) == job[j].pc \in { "produce", "write" }

\* C17: the lock is held only by a task inside the block, by one at a time,
\* and never by a task that has left the block or completed, whether the
\* block ended or raised; a task leaves the lock statement only by entering
\* the block while the lock is free; and under fair scheduling the waiting
\* ends: from some point on no task waits at the lock and the lock is free.
C17_LockAlwaysReleased ==
    /\ [](/\ Cardinality(lock_held) <= 1
          /\ \A j \in Jobs : j \in lock_held <=> InBlock(j))
    /\ [][\A j \in Jobs :
            (AtLock(j) /\ job'[j] # job[j]) =>
                /\ lock_held = {}
                /\ job'[j].pc \in { "produce", "read" }
                /\ job'[j].pc = "produce" <=> j \in lock_held']_vars
    /\ [](tasks # <<>> =>
            <>[](lock_held = {} /\ \A j \in Jobs : ~AtLock(j) /\ ~InBlock(j)))

\* Frame production of one task has raised inside the block, the lock is
\* free again, and another task stands at a lock statement.
C17_Witness ==
    \E i, j \in Jobs :
        /\ Completed(i)
        /\ posted[i] # <<>>
        /\ Outcome(i).signal = "error"
        /\ Outcome(i).payload.e = "save_frame failed"
        /\ AtLock(j)
        /\ lock_held = {}

\* --------------------------------------------------------------------- C18

\* Start Export pressed up to MaxExports times, for up to BatchVideos videos
\* each time, into the same output folder.
MaxExports == 2

BatchVideos == 2

\* What the user has set in these exports: one video file per video, no
\* closing image, no audio.
BatchSetups == { Setup(1, << Rel("clip.mp4") >>, NoPath, NoPath, 1) }

\* Start Export pressed again; the dialog of the export before is closed or
\* was cancelled, tasks of it may still run.
ExportAgain ==
    \E n \in 1..BatchVideos, setup \in BatchSetups, res \in Resolutions :
        /\ Exports < MaxExports
        /\ StartExport(n, setup, res)

BatchTaskIds == 1..(MaxExports * BatchVideos)

BatchNext ==
    \/ ExportAgain
    \/ CancelExport
    \/ \E j \in BatchTaskIds : j \in Jobs /\ RunStarted(j)
    \/ \E j \in BatchTaskIds : j \in Jobs /\ RunQueued(j)
    \/ \E j \in BatchTaskIds : j \in Jobs /\ LoadVideo(j)
    \/ \E j \in BatchTaskIds : j \in Jobs /\ Assemble(j)
    \/ \E j \in BatchTaskIds : j \in Jobs /\ FitAudio(j)
    \/ \E j \in BatchTaskIds : j \in Jobs /\ Render(j)
    \/ \E j \in BatchTaskIds : j \in Jobs /\ HandleSucceeded(j)
    \/ \E j \in BatchTaskIds : j \in Jobs /\ HandleFailed(j)

BatchSpec == Init /\ [][BatchNext]_vars

\* The tasks of the export started last.
LatestBatch == { j \in Jobs : tasks[j].export = Exports }

\* C18 as stated: tasks_finished never exceeds total_tasks, and once
\* on_task_finished has announced the end of the export (the dialog is
\* closed and the message shown) every task of the export started last has
\* completed.
C18_AnnouncedWhenBatchDone ==
    /\ tasks_finished <= total_tasks
    /\ progress_dialog = "closed" => \A j \in LatestBatch : Completed(j)

\* --------------------------------------------------------------------- C19

\* write_videofile of task j is running.
Rendering(j) == job[j].pc = "render"

\* C19 as stated: no two tasks are in write_videofile on the same output
\* path at the same time.
C19_NoSharedOutputPath ==
    \A i, j \in Jobs :
        (i # j /\ Rendering(i) /\ Rendering(j)) =>
            OutputPath(Params(i).output_folder, tasks[i].video_idx)
                # OutputPath(Params(j).output_folder, tasks[j].video_idx)

====
